---- MODULE Spec2Model ----
(***************************************************************************)
(* The asset reconciliation sensor of                                      *)
(* dagster/_core/definitions/asset_reconciliation_sensor.py.               *)
(*                                                                         *)
(* The sensor is invoked tick by tick.  A tick reads the persisted cursor  *)
(* and the event log / run store of the instance, decides which monitored  *)
(* assets to materialize and, when there is at least one, writes the       *)
(* cursor and returns one RunRequest.  Between ticks the job system        *)
(* creates runs, records materializations and finishes runs.               *)
(*                                                                         *)
(* The module also holds the reconciler of managed Airbyte stacks,         *)
(* dagster_airbyte/managed.py (reconcile_config), with its own             *)
(* specification AirbyteSpec.                                              *)
(***************************************************************************)
EXTENDS Integers, Sequences, FiniteSets, TLC

(***************************************************************************)
(* Bounds of the model.                                                    *)
(***************************************************************************)
\* runs the job system creates in the general specification
MaxRuns == 2
\* largest event timestamp in the general specification
MaxTime == 3
\* largest number of assets one run plans
MaxPlanSize == 2
\* runs the job system creates after the scenario's initial history
ScenarioMaxRuns == 1
\* largest event timestamp in the scenario specification
ScenarioMaxTime == 6
\* distinct configurations a source or a destination can have
MaxConfigurations == 2
MaxConnections == 1

VARIABLES
    \* the repository definition and the sensor's construction parameters
    deps,                       \* asset key -> its direct parents in the asset graph
    selection,                  \* the resolved asset selection (monitored assets)
    and_condition,
    wait_for_in_progress_runs,
    airbyte,                    \* the managed Airbyte stack, <<>> when the repository has none
    \* the instance: event log, run store, wall clock
    log,                        \* sequence of event log entries, oldest first
    runs,                       \* run_id -> run status
    now,                        \* timestamp of the latest materialization event
    \* the sensor context
    cursor,                     \* context.cursor: the serialized cursor, <<>> when unset
    \* what the last tick computed (cleared as soon as the instance changes)
    phase,                      \* "idle" | "ticked"
    cursor_dict,
    toposort_assets,
    parent_update_records,
    should_materialize,
    cursor_update_dict,
    run_request                 \* <<>> (the tick returned None) or <<RunRequest>>

config == <<deps, selection, and_condition, wait_for_in_progress_runs, airbyte>>
instance == <<log, runs, now>>
locals == <<phase, cursor_dict, toposort_assets, parent_update_records,
            should_materialize, cursor_update_dict, run_request>>
vars == <<config, instance, cursor, locals>>

(***************************************************************************)
(* Helpers.                                                                *)
(***************************************************************************)
Range(s) == {s[i] : i \in DOMAIN s}

Max(S) == CHOOSE x \in S : \A y \in S : y <= x

\* every enumeration of a finite set (the orders a Python set may iterate in)
Perms(S) == {s \in [1..Cardinality(S) -> S] : \A x \in S : \E i \in DOMAIN s : s[i] = x}

\* one fixed enumeration of a finite set
RECURSIVE SetToSeq(_)
SetToSeq(S) == IF S = {} THEN <<>>
               ELSE LET x == CHOOSE y \in S : TRUE IN <<x>> \o SetToSeq(S \ {x})

EmptyDict == [k \in {} |-> 0]

\* dict.get(key, default)
DictGet(d, k, default) == IF k \in DOMAIN d THEN d[k] ELSE default

\* d[k] = v on a Python dict
DictSet(d, k, v) == [x \in DOMAIN d \cup {k} |-> IF x = k THEN v ELSE d[x]]

(***************************************************************************)
(* The cursor codec: json.dumps of a dict writes its items in insertion    *)
(* order; json.loads reads them back into a dict.                          *)
(***************************************************************************)
JsonDumps(d, keyorder) == [i \in 1..Len(keyorder) |-> <<keyorder[i], d[keyorder[i]]>>]

JsonLoads(text) ==
    [k \in {text[i][1] : i \in DOMAIN text} |->
        LET i == CHOOSE j \in DOMAIN text : text[j][1] = k IN text[i][2]]

\* json.loads raises on a text that is not a JSON document; the texts of the
\* model are item lists, and the one that is not a document is a list cut
\* short inside its last item (the key without its value)
WellFormed(text) == \A i \in DOMAIN text : Len(text[i]) = 2

Truncated(text) ==
    [i \in DOMAIN text |-> IF i = Len(text) THEN <<text[i][1]>> ELSE text[i]]

(***************************************************************************)
(* The instance's queries used by the sensor.                              *)
(***************************************************************************)
IN_PROGRESS_RUN_STATUSES == {"STARTED"}

\* get_event_records(EventRecordsFilter(event_type, asset_key), ascending=False, limit=1)
GetEventRecords(context, event_type, asset_key) ==
    LET idx == {i \in DOMAIN context.log :
                    /\ context.log[i].event_type = event_type
                    /\ context.log[i].asset_key = asset_key}
    IN IF idx = {} THEN <<>> ELSE <<context.log[Max(idx)]>>

\* get_runs(RunsFilter(run_ids=[run_id], statuses=statuses))
GetRuns(context, run_id, statuses) ==
    IF run_id \in DOMAIN context.runs /\ context.runs[run_id] \in statuses
    THEN <<run_id>> ELSE <<>>

\* get_records_for_run(run_id, of_type).records
GetRecordsForRun(context, run_id, of_type) ==
    SelectSeq(context.log, LAMBDA e : e.run_id = run_id /\ e.event_type = of_type)

Context == [log |-> log, runs |-> runs]

(***************************************************************************)
(* _get_upstream_mapping: the monitored assets and their direct parents.   *)
(* upstream(depth=1) of a key holds the key itself, which is filtered out. *)
(***************************************************************************)
\* a mutant: the key itself is left among its parents
get_upstream_mapping_unfiltered(sel, graph) == [a \in sel |-> graph[a] \cup {a}]

get_upstream_mapping(sel, graph) ==
    [a \in sel |-> {p \in graph[a] \cup {a} : p # a}]

(***************************************************************************)
(* toposort.toposort(upstream): the layers of the dependency map.  Every   *)
(* item that only occurs as a dependency is given no dependencies; a layer *)
(* is the set of items whose dependencies are all in earlier layers.       *)
(***************************************************************************)
ToposortData(upstream) ==
    LET items == DOMAIN upstream \cup UNION {upstream[a] : a \in DOMAIN upstream}
    IN [x \in items |-> IF x \in DOMAIN upstream THEN upstream[x] \ {x} ELSE {}]

RECURSIVE ToposortLayers(_)
ToposortLayers(data) ==
    LET ordered == {x \in DOMAIN data : data[x] = {}}
    IN IF ordered = {} THEN <<>>
       ELSE <<ordered>> \o ToposortLayers([x \in DOMAIN data \ ordered |-> data[x] \ ordered])

LayerOf(layers, x) == CHOOSE i \in DOMAIN layers : x \in layers[i]

\* a mutant: the monitored assets in any order, the layers ignored
ToposortAssetsUnordered(upstream) == Perms(DOMAIN upstream)

\* The flattened layers, restricted to the monitored assets.  A layer is a
\* Python set, so the order inside a layer is any order.
ToposortAssets(upstream) ==
    LET layers == ToposortLayers(ToposortData(upstream))
    IN {s \in Perms(DOMAIN upstream) :
            \A i, j \in DOMAIN s : i < j => LayerOf(layers, s[i]) <= LayerOf(layers, s[j])}

\* for every monitored asset, the order in which its parent set is iterated
ParentOrders(upstream) ==
    {f \in [DOMAIN upstream -> UNION {Perms(upstream[a]) : a \in DOMAIN upstream}] :
        \A a \in DOMAIN upstream : f[a] \in Perms(upstream[a])}

(***************************************************************************)
(* _get_parent_updates.                                                    *)
(***************************************************************************)
Status(updated, ts) == [updated |-> updated, ts |-> ts]

\* lines 98-118: the most recent planned materialization of p belongs to a
\* run that is in progress
ParentInProgress(context, p) ==
    LET materialization_planned_event_records ==
            GetEventRecords(context, "ASSET_MATERIALIZATION_PLANNED", p)
    IN /\ materialization_planned_event_records # <<>>
       /\ GetRuns(context, materialization_planned_event_records[1].run_id,
                  IN_PROGRESS_RUN_STATUSES) # <<>>

\* a mutant: a parent co-materialized with the child counts as updated
CompletedStatusNoCoCheck(context, current_asset, p, cursor_timestamp) ==
    LET event_records == GetEventRecords(context, "ASSET_MATERIALIZATION", p)
    IN IF event_records # <<>> /\ event_records[1].timestamp > cursor_timestamp
       THEN Status(TRUE, event_records[1].timestamp)
       ELSE Status(FALSE, 0)

\* a mutant: a parent without any completed materialization counts as updated
CompletedStatusMissingUpdated(context, current_asset, p, cursor_timestamp) ==
    LET event_records == GetEventRecords(context, "ASSET_MATERIALIZATION", p)
    IN IF event_records = <<>> THEN Status(TRUE, 0)
       ELSE IF event_records[1].timestamp > cursor_timestamp
       THEN IF current_asset \in
                 {rec.asset_key : rec \in Range(GetRecordsForRun(context,
                        event_records[1].run_id, "ASSET_MATERIALIZATION_PLANNED"))}
            THEN Status(FALSE, event_records[1].timestamp)
            ELSE Status(TRUE, event_records[1].timestamp)
       ELSE Status(FALSE, 0)

\* lines 125-161: the status of a parent from its latest completed materialization
CompletedStatus(context, current_asset, p, cursor_timestamp) ==
    LET event_records == GetEventRecords(context, "ASSET_MATERIALIZATION", p)
    IN IF event_records # <<>> /\ event_records[1].timestamp > cursor_timestamp
       THEN LET other_materialized_asset_records ==
                    GetRecordsForRun(context, event_records[1].run_id,
                                     "ASSET_MATERIALIZATION_PLANNED")
                other_materialized_assets ==
                    {other_materialized_asset_records[i].asset_key :
                        i \in DOMAIN other_materialized_asset_records}
            IN IF current_asset \in other_materialized_assets
               THEN Status(FALSE, event_records[1].timestamp)
               ELSE Status(TRUE, event_records[1].timestamp)
       ELSE Status(FALSE, 0)

\* a mutant: the in-flight check is made whatever wait_for_in_progress_runs says
RECURSIVE ParentLoopAlwaysWaits(_, _, _, _, _, _, _, _)
ParentLoopAlwaysWaits(context, current_asset, parent_assets, cursor_timestamp, will_materialize_list, wait, ps, acc) ==
    IF ps = <<>> THEN acc
    ELSE LET p == Head(ps) IN
         IF p \in Range(will_materialize_list)
         THEN ParentLoopAlwaysWaits(context, current_asset, parent_assets, cursor_timestamp,
                         will_materialize_list, wait, Tail(ps),
                         DictSet(acc, p, Status(TRUE, 0)))
         ELSE IF ParentInProgress(context, p)
         THEN [pp \in parent_assets |-> Status(FALSE, 0)]
         ELSE ParentLoopAlwaysWaits(context, current_asset, parent_assets, cursor_timestamp,
                         will_materialize_list, wait, Tail(ps),
                         DictSet(acc, p, CompletedStatus(context, current_asset, p,
                                                         cursor_timestamp)))

\* a mutant: a parent in will_materialize_list is judged from the log like the others
RECURSIVE ParentLoopNoRideAlong(_, _, _, _, _, _, _, _)
ParentLoopNoRideAlong(context, current_asset, parent_assets, cursor_timestamp, will_materialize_list, wait, ps, acc) ==
    IF ps = <<>> THEN acc
    ELSE LET p == Head(ps) IN
         IF wait /\ ParentInProgress(context, p)
         THEN [pp \in parent_assets |-> Status(FALSE, 0)]
         ELSE ParentLoopNoRideAlong(context, current_asset, parent_assets, cursor_timestamp,
                         will_materialize_list, wait, Tail(ps),
                         DictSet(acc, p, CompletedStatus(context, current_asset, p,
                                                         cursor_timestamp)))

\* a mutant: a parent in flight is marked not updated and the loop goes on
RECURSIVE ParentLoopNoAbort(_, _, _, _, _, _, _, _)
ParentLoopNoAbort(context, current_asset, parent_assets, cursor_timestamp, will_materialize_list, wait, ps, acc) ==
    IF ps = <<>> THEN acc
    ELSE LET p == Head(ps) IN
         ParentLoopNoAbort(context, current_asset, parent_assets, cursor_timestamp,
                           will_materialize_list, wait, Tail(ps),
                           DictSet(acc, p,
                               IF p \in Range(will_materialize_list) THEN Status(TRUE, 0)
                               ELSE IF wait /\ ParentInProgress(context, p)
                               THEN Status(FALSE, 0)
                               ELSE CompletedStatus(context, current_asset, p,
                                                    cursor_timestamp)))

\* The loop over parent_assets, iterated in the order ps, from position i on,
\* with the dictionary built so far.
RECURSIVE ParentLoop(_, _, _, _, _, _, _, _)
ParentLoop(context, current_asset, parent_assets, cursor_timestamp, will_materialize_list, wait, ps, acc) ==
    IF ps = <<>> THEN acc
    ELSE LET p == Head(ps) IN
         IF p \in Range(will_materialize_list)
         THEN ParentLoop(context, current_asset, parent_assets, cursor_timestamp,
                         will_materialize_list, wait, Tail(ps),
                         DictSet(acc, p, Status(TRUE, 0)))
         ELSE IF wait /\ ParentInProgress(context, p)
         THEN [pp \in parent_assets |-> Status(FALSE, 0)]
         ELSE ParentLoop(context, current_asset, parent_assets, cursor_timestamp,
                         will_materialize_list, wait, Tail(ps),
                         DictSet(acc, p, CompletedStatus(context, current_asset, p,
                                                         cursor_timestamp)))

get_parent_updates(context, current_asset, parent_assets, cursor_timestamp, will_materialize_list, wait, ps) ==
    ParentLoop(context, current_asset, parent_assets, cursor_timestamp,
               will_materialize_list, wait, ps, EmptyDict)

(***************************************************************************)
(* sensor_fn.                                                              *)
(***************************************************************************)
\* a mutant: all and any exchanged
ConditionSwapped(and_cond, statuses) ==
    IF and_cond THEN \E i \in DOMAIN statuses : statuses[i]
    ELSE \A i \in DOMAIN statuses : statuses[i]

\* lines 220-226: condition = all if and_condition else any, applied to the
\* list of the parents' statuses
Condition(and_cond, statuses) ==
    IF and_cond THEN \A i \in DOMAIN statuses : statuses[i]
    ELSE \E i \in DOMAIN statuses : statuses[i]

\* a mutant: the asset's previous cursor is left out of the maximum
LaunchedCursorNoPrev(cursor_vals, a_cursor) ==
    IF cursor_vals = <<>> THEN a_cursor ELSE Max(Range(cursor_vals))

\* a mutant: the cursor is moved past the newest timestamp seen
LaunchedCursorBumped(cursor_vals, a_cursor) == Max(Range(cursor_vals) \cup {a_cursor}) + 1

\* lines 228-230: max([cursor_val for ...] + [a_cursor])
LaunchedCursor(cursor_vals, a_cursor) == Max(Range(cursor_vals \o <<a_cursor>>))

\* a mutant: an asset that is not launched still takes the maximum
SkippedCursorAdvanced(cursor_vals, a_cursor) == Max(Range(cursor_vals \o <<a_cursor>>))

\* line 210: cursor_update_dict[str(a)] = a_cursor, kept when a is not launched
SkippedCursor(cursor_vals, a_cursor) == a_cursor

\* the values of a dict as a list
DictValues(d, keyorder) == [i \in 1..Len(keyorder) |-> d[keyorder[i]]]

\* lines 208-230: the loop over toposort_assets.  st holds should_materialize,
\* cursor_update_dict and, for each asset seen, its parent_update_records.
RECURSIVE SensorLoop(_, _, _, _, _, _, _)
SensorLoop(context, upstream, cur, and_cond, wait, todo, st) ==
    IF todo.assets = <<>> THEN st
    ELSE LET a == Head(todo.assets)
             a_cursor == DictGet(cur, a, 0)
             ps == todo.porder[a]
             records == get_parent_updates(context, a, upstream[a], a_cursor,
                                           st.should_materialize, wait, ps)
             vals == DictValues(records, SetToSeq(DOMAIN records))
             launch == Condition(and_cond, [i \in DOMAIN vals |-> vals[i].updated])
         IN SensorLoop(context, upstream, cur, and_cond, wait,
                [assets |-> Tail(todo.assets), porder |-> todo.porder],
                [should_materialize |->
                    IF launch THEN Append(st.should_materialize, a)
                    ELSE st.should_materialize,
                 cursor_update_dict |->
                    DictSet(st.cursor_update_dict, a,
                        IF launch
                        THEN LaunchedCursor([i \in DOMAIN vals |-> vals[i].ts], a_cursor)
                        ELSE SkippedCursor([i \in DOMAIN vals |-> vals[i].ts], a_cursor)),
                 parent_update_records |-> DictSet(st.parent_update_records, a, records)])

\* a mutant: the cursor is written on every tick
CursorWrittenAlways(should, text) == TRUE

\* line 232: the cursor is written, and a request returned, when something launches
CursorWritten(should, text) == Len(should) > 0

\* a mutant: the run_key is the cursor the tick started from
RunKeyStale(old_text, new_text) == old_text

\* line 235: run_key is context.cursor read after update_cursor (line 233)
RunKey(old_text, new_text) == new_text

\* the invocation ends in an exception: nothing is returned, and the context's
\* cursor is what it was
Raised(text) ==
    [raised |-> TRUE,
     cursor_dict |-> EmptyDict,
     toposort_assets |-> <<>>,
     parent_update_records |-> EmptyDict,
     should_materialize |-> <<>>,
     cursor_update_dict |-> EmptyDict,
     cursor |-> text,
     run_request |-> <<>>]

\* The whole of sensor_fn on the context and the persisted cursor text, with
\* the iteration orders order (assets) and porder (each asset's parents).
sensor_fn(context, graph, sel, and_cond, wait, text, order, porder) ==
    LET upstream == get_upstream_mapping(sel, graph)
        cur == IF text # <<>> THEN JsonLoads(text) ELSE EmptyDict
        st == SensorLoop(context, upstream, cur, and_cond, wait,
                         [assets |-> order, porder |-> porder],
                         [should_materialize |-> <<>>,
                          cursor_update_dict |-> EmptyDict,
                          parent_update_records |-> EmptyDict])
        written == CursorWritten(st.should_materialize, text)
        newtext == IF written THEN JsonDumps(st.cursor_update_dict, order) ELSE text
    IN IF text # <<>> /\ ~WellFormed(text) THEN Raised(text)
       ELSE
       [raised |-> FALSE,
        cursor_dict |-> cur,
        toposort_assets |-> order,
        parent_update_records |-> st.parent_update_records,
        should_materialize |-> st.should_materialize,
        cursor_update_dict |-> st.cursor_update_dict,
        cursor |-> newtext,
        run_request |->
            IF Len(st.should_materialize) > 0
            THEN <<[run_key |-> RunKey(text, newtext),
                    asset_selection |-> st.should_materialize]>>
            ELSE <<>>]

\* a mutant: the cursor is written as the loop goes
AbortedCursorEager(text, partial, seen) == JsonDumps(partial, seen)

\* lines 232-233: update_cursor is called only after the loop, so an exception
\* inside the loop leaves the context's cursor as it was
AbortedCursor(text, partial, seen) == text

\* sensor_fn when a query of the instance raises while the k-th asset of order
\* is being processed (lines 208-218): the assets before it have been decided,
\* line 210 has run for the k-th, and the exception leaves sensor_fn.
sensor_fn_aborted(context, graph, sel, and_cond, wait, text, order, porder, k) ==
    LET upstream == get_upstream_mapping(sel, graph)
        cur == IF text # <<>> THEN JsonLoads(text) ELSE EmptyDict
        st == SensorLoop(context, upstream, cur, and_cond, wait,
                         [assets |-> SubSeq(order, 1, k - 1), porder |-> porder],
                         [should_materialize |-> <<>>,
                          cursor_update_dict |-> EmptyDict,
                          parent_update_records |-> EmptyDict])
        a == order[k]
        partial == DictSet(st.cursor_update_dict, a, DictGet(cur, a, 0))
    IN [raised |-> TRUE,
        queried |-> upstream[a] \ Range(st.should_materialize) # {},
        cursor_dict |-> cur,
        toposort_assets |-> order,
        parent_update_records |-> st.parent_update_records,
        should_materialize |-> st.should_materialize,
        cursor_update_dict |-> partial,
        cursor |-> AbortedCursor(text, partial, SubSeq(order, 1, k)),
        run_request |-> <<>>]

Upstream == get_upstream_mapping(selection, deps)

(***************************************************************************)
(* Initial states.                                                         *)
(***************************************************************************)
\* the tick-scoped values before any tick, and after the instance changed
LocalsCleared ==
    /\ phase = "idle"
    /\ cursor_dict = EmptyDict
    /\ toposort_assets = <<>>
    /\ parent_update_records = EmptyDict
    /\ should_materialize = <<>>
    /\ cursor_update_dict = EmptyDict
    /\ run_request = <<>>

ClearLocals ==
    /\ phase' = "idle"
    /\ cursor_dict' = EmptyDict
    /\ toposort_assets' = <<>>
    /\ parent_update_records' = EmptyDict
    /\ should_materialize' = <<>>
    /\ cursor_update_dict' = EmptyDict
    /\ run_request' = <<>>

\* The repositories of the general specification, over three assets: the
\* asset graph and the selection the sensor is built with.
Repo(graph, sel) == [deps |-> graph, selection |-> sel]

Edges(px, py, pz) == [k \in {"x", "y", "z"} |-> CASE k = "x" -> px [] k = "y" -> py [] OTHER -> pz]

Repos ==
    { Repo(Edges({}, {"x"}, {"y"}), {"y", "z"}),        \* x -> y -> z, x external
      Repo(Edges({}, {"x"}, {"y"}), {"x", "y", "z"}),   \* x -> y -> z, x monitored
      Repo(Edges({}, {}, {"x", "y"}), {"z"}),           \* x -> z <- y, both external
      Repo(Edges({}, {}, {"x", "y"}), {"y", "z"}),      \* x -> z <- y, y monitored
      Repo(Edges({}, {"x"}, {"x", "y"}), {"y", "z"}) }  \* x -> y -> z, x -> z

Init ==
    /\ \E repo \in Repos : deps = repo.deps /\ selection = repo.selection
    /\ and_condition \in BOOLEAN
    /\ wait_for_in_progress_runs \in BOOLEAN
    /\ airbyte = <<>>
    /\ log = <<>>
    /\ runs = <<>>
    /\ now = 0
    /\ cursor = <<>>
    /\ LocalsCleared

\* The graph of the docstring of build_asset_reconciliation_sensor:
\* a -> d, b -> d, b -> e, c -> e, d -> f, e -> f, with d, e, f monitored.
DocGraph ==
    [k \in {"a", "b", "c", "d", "e", "f"} |->
        CASE k = "d" -> {"a", "b"}
          [] k = "e" -> {"b", "c"}
          [] k = "f" -> {"d", "e"}
          [] OTHER -> {}]

PlannedEvent(a, r, t) ==
    [event_type |-> "ASSET_MATERIALIZATION_PLANNED", asset_key |-> a, run_id |-> r,
     timestamp |-> t]

MaterializationEvent(a, r, t) ==
    [event_type |-> "ASSET_MATERIALIZATION", asset_key |-> a, run_id |-> r,
     timestamp |-> t]

\* The scenarios start with a, b and c materialized at 1, 2 and 3 by three
\* finished runs, nothing recorded for d, e and f, and no cursor.
ScenarioInit ==
    /\ deps = DocGraph
    /\ selection = {"d", "e", "f"}
    /\ and_condition \in BOOLEAN
    /\ wait_for_in_progress_runs = TRUE
    /\ airbyte = <<>>
    /\ log = << PlannedEvent("a", 1, 0), MaterializationEvent("a", 1, 1),
                PlannedEvent("b", 2, 1), MaterializationEvent("b", 2, 2),
                PlannedEvent("c", 3, 2), MaterializationEvent("c", 3, 3) >>
    /\ runs = <<"FINISHED", "FINISHED", "FINISHED">>
    /\ now = 3
    /\ cursor = <<>>
    /\ LocalsCleared

(***************************************************************************)
(* The job system.                                                         *)
(***************************************************************************)
PlannedIn(r) == {log[i].asset_key : i \in {j \in DOMAIN log :
                    log[j].run_id = r /\ log[j].event_type = "ASSET_MATERIALIZATION_PLANNED"}}

MaterializedIn(r) == {log[i].asset_key : i \in {j \in DOMAIN log :
                    log[j].run_id = r /\ log[j].event_type = "ASSET_MATERIALIZATION"}}

\* a run is created: its planned materializations are recorded
LaunchRun(max_runs, plan) ==
    /\ Len(runs) < max_runs
    /\ plan # {} /\ Cardinality(plan) <= MaxPlanSize
    /\ LET r == Len(runs) + 1
           order == SetToSeq(plan)
       IN /\ runs' = Append(runs, "STARTED")
          /\ log' = log \o [i \in DOMAIN order |-> PlannedEvent(order[i], r, now)]
    /\ ClearLocals
    /\ UNCHANGED <<config, now, cursor>>

\* a run in progress materializes one of the assets it planned
Materialize(max_time, r, a) ==
    /\ r \in DOMAIN runs /\ runs[r] = "STARTED"
    /\ a \in PlannedIn(r) \ MaterializedIn(r)
    /\ now < max_time
    /\ log' = Append(log, MaterializationEvent(a, r, now + 1))
    /\ now' = now + 1
    /\ ClearLocals
    /\ UNCHANGED <<config, runs, cursor>>

\* a run in progress ends
FinishRun(r) ==
    /\ r \in DOMAIN runs /\ runs[r] = "STARTED"
    /\ runs' = [runs EXCEPT ![r] = "FINISHED"]
    /\ ClearLocals
    /\ UNCHANGED <<config, log, now, cursor>>

(***************************************************************************)
(* One invocation of the sensor.                                           *)
(***************************************************************************)
Tick ==
    \E order \in ToposortAssets(Upstream) :
    \E porder \in ParentOrders(Upstream) :
    \E r \in {sensor_fn(Context, deps, selection, and_condition,
                        wait_for_in_progress_runs, cursor, order, porder)} :
        /\ phase' = IF r.raised THEN "failed" ELSE "ticked"
        /\ cursor_dict' = r.cursor_dict
        /\ toposort_assets' = r.toposort_assets
        /\ parent_update_records' = r.parent_update_records
        /\ should_materialize' = r.should_materialize
        /\ cursor_update_dict' = r.cursor_update_dict
        /\ run_request' = r.run_request
        /\ cursor' = r.cursor
        /\ UNCHANGED <<config, instance>>

\* One invocation of the sensor in which a query of the instance raises (or
\* the framework stops the evaluation there): the k-th asset is one for which
\* _get_parent_updates queries the instance, i.e. it has a parent that is not
\* in should_materialize (lines 85-91 skip the others).
TickAborted ==
    /\ cursor = <<>> \/ WellFormed(cursor)
    /\ \E order \in ToposortAssets(Upstream) :
       \E porder \in ParentOrders(Upstream) :
       \E k \in 1..Len(order) :
       \E r \in {sensor_fn_aborted(Context, deps, selection, and_condition,
                                  wait_for_in_progress_runs, cursor, order, porder, k)} :
            /\ r.queried
            /\ phase' = "failed"
            /\ cursor_dict' = r.cursor_dict
            /\ toposort_assets' = r.toposort_assets
            /\ parent_update_records' = r.parent_update_records
            /\ should_materialize' = r.should_materialize
            /\ cursor_update_dict' = r.cursor_update_dict
            /\ run_request' = r.run_request
            /\ cursor' = r.cursor
            /\ UNCHANGED <<config, instance>>

\* the stored cursor text is damaged (cut short) between two ticks
CursorCorrupted ==
    /\ cursor # <<>> /\ WellFormed(cursor)
    /\ cursor' = Truncated(cursor)
    /\ ClearLocals
    /\ UNCHANGED <<config, instance>>

\* the wall clock advances without an event being recorded
TimePasses(max_time) ==
    /\ now < max_time
    /\ now' = now + 1
    /\ ClearLocals
    /\ UNCHANGED <<config, log, runs, cursor>>

RunLaunched == \E plan \in SUBSET DOMAIN deps : LaunchRun(MaxRuns, plan)

AssetMaterialized ==
    \E r \in DOMAIN runs, a \in DOMAIN deps : Materialize(MaxTime, r, a)

RunFinished == \E r \in DOMAIN runs : FinishRun(r)

Next == Tick \/ RunLaunched \/ AssetMaterialized \/ RunFinished

Spec == Init /\ [][Next]_vars

(***************************************************************************)
(* The sensor followed by the run it asked for.  Until a request is taken  *)
(* up the system runs as in Spec; then the requested run is created, it    *)
(* materializes the assets of the request in dependency order and ends,    *)
(* and nothing else is recorded any more; the sensor keeps ticking.        *)
(***************************************************************************)
OpenPhase == phase \in {"idle", "ticked"}

ClearLocalsTo(next_phase) ==
    /\ phase' = next_phase
    /\ cursor_dict' = EmptyDict
    /\ toposort_assets' = <<>>
    /\ parent_update_records' = EmptyDict
    /\ should_materialize' = <<>>
    /\ cursor_update_dict' = EmptyDict
    /\ run_request' = <<>>

\* the last run is the one created from the sensor's request
OwnRun == Len(runs)

\* the RunRequest returned by the tick is turned into a run of its asset_selection
OwnRunLaunched ==
    /\ phase = "ticked" /\ run_request # <<>>
    /\ LET order == run_request[1].asset_selection
       IN /\ runs' = Append(runs, "STARTED")
          /\ log' = log \o [i \in DOMAIN order |-> PlannedEvent(order[i], Len(runs) + 1, now)]
    /\ ClearLocalsTo("own_run")
    /\ UNCHANGED <<config, now, cursor>>

\* the requested run materializes an asset whose planned parents are done
OwnRunMaterialized ==
    /\ phase \in {"own_run", "own_run_ticked"}
    /\ \E a \in PlannedIn(OwnRun) \ MaterializedIn(OwnRun) :
          /\ deps[a] \cap PlannedIn(OwnRun) \subseteq MaterializedIn(OwnRun)
          /\ log' = Append(log, MaterializationEvent(a, OwnRun, now + 1))
    /\ now' = now + 1
    /\ ClearLocalsTo("own_run")
    /\ UNCHANGED <<config, runs, cursor>>

\* the requested run ends, having materialized everything it planned
OwnRunFinished ==
    /\ phase \in {"own_run", "own_run_ticked"}
    /\ PlannedIn(OwnRun) = MaterializedIn(OwnRun)
    /\ runs' = [runs EXCEPT ![OwnRun] = "FINISHED"]
    /\ ClearLocalsTo("own_done")
    /\ UNCHANGED <<config, log, now, cursor>>

\* an invocation of the sensor that leaves the phase at next_phase
TickIn(phases, next_phase) ==
    /\ phase \in phases
    /\ \E order \in ToposortAssets(Upstream) :
       \E porder \in ParentOrders(Upstream) :
       \E r \in {sensor_fn(Context, deps, selection, and_condition,
                          wait_for_in_progress_runs, cursor, order, porder)} :
            /\ phase' = next_phase
            /\ cursor_dict' = r.cursor_dict
            /\ toposort_assets' = r.toposort_assets
            /\ parent_update_records' = r.parent_update_records
            /\ should_materialize' = r.should_materialize
            /\ cursor_update_dict' = r.cursor_update_dict
            /\ run_request' = r.run_request
            /\ cursor' = r.cursor
            /\ UNCHANGED <<config, instance>>

\* a tick while the requested run is in progress
TickDuringOwnRun == TickIn({"own_run", "own_run_ticked"}, "own_run_ticked")

\* a tick after the requested run has ended
TickAfterOwnRun == TickIn({"own_done", "own_ticked"}, "own_ticked")

OwnRunNext ==
    \/ OpenPhase /\ Tick
    \/ OpenPhase /\ RunLaunched
    \/ OpenPhase /\ AssetMaterialized
    \/ OpenPhase /\ RunFinished
    \/ OwnRunLaunched
    \/ TickDuringOwnRun
    \/ OwnRunMaterialized
    \/ OwnRunFinished
    \/ TickAfterOwnRun

OwnRunSpec == Init /\ [][OwnRunNext]_vars

(***************************************************************************)
(* The tick interleaved with the job system.  sensor_fn queries the        *)
(* instance once per asset of toposort_assets (inside _get_parent_updates) *)
(* and nothing makes these queries one snapshot: runs are created, record  *)
(* materializations and end between the evaluation of one asset and the    *)
(* next.  The evaluation of the last asset is followed at once by lines    *)
(* 232-235.                                                                *)
(***************************************************************************)
\* lines 186-204: the cursor is read and the assets are ordered
TickStarted ==
    /\ phase # "ticking"
    /\ \E order \in ToposortAssets(Upstream) :
          /\ toposort_assets' = order
          /\ cursor_dict' = IF cursor # <<>> THEN JsonLoads(cursor) ELSE EmptyDict
    /\ phase' = "ticking"
    /\ parent_update_records' = EmptyDict
    /\ should_materialize' = <<>>
    /\ cursor_update_dict' = EmptyDict
    /\ run_request' = <<>>
    /\ UNCHANGED <<config, instance, cursor>>

\* lines 208-230 for the next asset, on the instance as it is now; after the
\* last asset, lines 232-235
TickStepped ==
    /\ phase = "ticking"
    /\ LET k == Cardinality(DOMAIN cursor_update_dict) + 1
           last == k = Len(toposort_assets)
       IN \E porder \in ParentOrders(Upstream) :
          \E st \in {SensorLoop(Context, Upstream, cursor_dict, and_condition,
                                wait_for_in_progress_runs,
                                [assets |-> <<toposort_assets[k]>>, porder |-> porder],
                                [should_materialize |-> should_materialize,
                                 cursor_update_dict |-> cursor_update_dict,
                                 parent_update_records |-> parent_update_records])} :
            /\ parent_update_records' = st.parent_update_records
            /\ should_materialize' = st.should_materialize
            /\ cursor_update_dict' = st.cursor_update_dict
            /\ phase' = IF last THEN "ticked" ELSE "ticking"
            /\ cursor' = IF last /\ CursorWritten(st.should_materialize, cursor)
                         THEN JsonDumps(st.cursor_update_dict, toposort_assets)
                         ELSE cursor
            /\ run_request' =
                    IF last /\ Len(st.should_materialize) > 0
                    THEN <<[run_key |-> RunKey(cursor, cursor'),
                            asset_selection |-> st.should_materialize]>>
                    ELSE <<>>
    /\ UNCHANGED <<config, instance, cursor_dict, toposort_assets>>

\* the job system between two evaluations of a tick: the tick's locals stay
RunLaunchedMidTick ==
    /\ phase = "ticking"
    /\ Len(runs) < MaxRuns
    /\ \E plan \in SUBSET DOMAIN deps :
          /\ plan # {} /\ Cardinality(plan) <= MaxPlanSize
          /\ LET order == SetToSeq(plan)
             IN log' = log \o [i \in DOMAIN order |-> PlannedEvent(order[i], Len(runs) + 1, now)]
    /\ runs' = Append(runs, "STARTED")
    /\ UNCHANGED <<config, now, cursor, locals>>

AssetMaterializedMidTick ==
    /\ phase = "ticking"
    /\ now < MaxTime
    /\ \E r \in DOMAIN runs : \E a \in PlannedIn(r) \ MaterializedIn(r) :
          /\ runs[r] = "STARTED"
          /\ log' = Append(log, MaterializationEvent(a, r, now + 1))
    /\ now' = now + 1
    /\ UNCHANGED <<config, runs, cursor, locals>>

RunFinishedMidTick ==
    /\ phase = "ticking"
    /\ \E r \in DOMAIN runs :
          /\ runs[r] = "STARTED"
          /\ runs' = [runs EXCEPT ![r] = "FINISHED"]
    /\ UNCHANGED <<config, log, now, cursor, locals>>

InterleavedInit == Init /\ wait_for_in_progress_runs

InterleavedNext ==
    \/ TickStarted
    \/ TickStepped
    \/ RunLaunchedMidTick
    \/ AssetMaterializedMidTick
    \/ RunFinishedMidTick
    \/ phase # "ticking" /\ RunLaunched
    \/ phase # "ticking" /\ AssetMaterialized
    \/ phase # "ticking" /\ RunFinished

InterleavedSpec == InterleavedInit /\ [][InterleavedNext]_vars

\* the sensor with failures: queries that raise and a damaged cursor
FaultNext ==
    \/ Tick
    \/ TickAborted
    \/ CursorCorrupted
    \/ RunLaunched
    \/ AssetMaterialized
    \/ RunFinished

FaultSpec == Init /\ [][FaultNext]_vars

ScenarioRunLaunched ==
    \E plan \in SUBSET DOMAIN deps : LaunchRun(3 + ScenarioMaxRuns, plan)

ScenarioAssetMaterialized ==
    \E r \in DOMAIN runs, a \in DOMAIN deps : Materialize(ScenarioMaxTime, r, a)

ScenarioTimePasses == TimePasses(ScenarioMaxTime)

ScenarioNext ==
    \/ Tick
    \/ ScenarioRunLaunched
    \/ ScenarioAssetMaterialized
    \/ RunFinished
    \/ ScenarioTimePasses

ScenarioSpec == ScenarioInit /\ [][ScenarioNext]_vars

(***************************************************************************)
(* dagster_airbyte/managed.py: reconcile_config brings the sources,        *)
(* destinations and connections of an Airbyte workspace in line with the   *)
(* configured connections, or with dry_run only reports the difference.    *)
(* A request is the endpoint and the name of the object it is about; the   *)
(* workspace is what the requests issued so far have made of it.           *)
(***************************************************************************)
SourceNames == {"s1", "s2"}
DestinationNames == {"d1"}
ConnectionNames == {"c1", "s1"}

SourceValues == [configuration : 1..MaxConfigurations, source_type : {"A", "B"}]
DestinationValues == [configuration : 1..MaxConfigurations]
ConnectionValues == [source : SourceNames, destination : DestinationNames, normalize_data : BOOLEAN]

\* objects: the configured connections with the sources and destinations they carry
ConfigConnections ==
    UNION {[ks -> ConnectionValues] :
           ks \in {x \in SUBSET ConnectionNames : Cardinality(x) <= MaxConnections}}

Objects ==
    UNION {{[connections |-> c, sources |-> srcs, destinations |-> dsts] :
                srcs \in [{c[n].source : n \in DOMAIN c} -> SourceValues],
                dsts \in [{c[n].destination : n \in DOMAIN c} -> DestinationValues]} :
           c \in ConfigConnections}

EmptyWorkspace == [sources |-> EmptyDict, destinations |-> EmptyDict, connections |-> EmptyDict]

Remove(d, k) == [x \in DOMAIN d \ {k} |-> d[x]]

ReadEndpoints ==
    {"/workspaces/list", "/sources/list", "/destinations/list", "/connections/list",
     "/source_definitions/list", "/destination_definitions/list"}

\* res.make_request for an endpoint that changes nothing
Request(st, endpoint, name) ==
    [st EXCEPT !.requests = Append(@, [endpoint |-> endpoint, name |-> name])]

\* res.make_request for the endpoints that change the workspace
DeleteRequest(st, kind, name) ==
    [Request(st, "/" \o kind \o "/delete", name) EXCEPT !.workspace[kind] = Remove(@, name)]

WriteRequest(st, kind, verb, name, value) ==
    [Request(st, "/" \o kind \o "/" \o verb, name) EXCEPT !.workspace[kind] = DictSet(@, name, value)]

\* AirbyteSource.must_be_recreated, AirbyteConnection.must_be_recreated
SourceMustBeRecreated(configured, existing) == configured.source_type # existing.source_type

ConnectionMustBeRecreated(configured, existing) ==
    configured.source # existing.source \/ configured.destination # existing.destination

\* res.does_dest_support_normalization
DestSupportsNormalization(destination) == TRUE

\* diff_sources, diff_destinations, diff_connections: what would change for
\* one name, given what is configured and what exists under that name
DiffEntries(kind, configured, existing) ==
    {[kind |-> kind, name |-> n, change |-> "create"] : n \in DOMAIN configured \ DOMAIN existing}
    \cup {[kind |-> kind, name |-> n, change |-> "delete"] : n \in DOMAIN existing \ DOMAIN configured}
    \cup {[kind |-> kind, name |-> n, change |-> "modify"] :
            n \in {m \in DOMAIN configured \cap DOMAIN existing : configured[m] # existing[m]}}

\* lines 317-333: the loop of reconcile_connections_pre
RECURSIVE ConnectionsPreLoop(_, _, _, _, _)
ConnectionsPreLoop(config_connections, existing_connections, dry_run, names, st) ==
    IF names = <<>> THEN st
    ELSE LET conn_name == Head(names)
             doomed ==
                /\ conn_name \in DOMAIN existing_connections
                /\ \/ conn_name \notin DOMAIN config_connections
                   \/ ConnectionMustBeRecreated(config_connections[conn_name],
                                                existing_connections[conn_name])
         IN ConnectionsPreLoop(config_connections, existing_connections, dry_run, Tail(names),
                IF doomed /\ ~dry_run THEN DeleteRequest(st, "connections", conn_name) ELSE st)

\* lines 299-335
reconcile_connections_pre(config_connections, dry_run, st) ==
    LET listed == Request(st, "/connections/list", "")
        existing_connections == listed.workspace.connections
    IN ConnectionsPreLoop(config_connections, existing_connections, dry_run,
            SetToSeq(DOMAIN config_connections \cup DOMAIN existing_connections), listed)

\* a mutant: a source that is not configured is deleted also in a dry run
RECURSIVE SourcesLoopUnguardedDelete(_, _, _, _, _)
SourcesLoopUnguardedDelete(config_sources, existing_sources, dry_run, names, st) ==
    IF names = <<>> THEN st
    ELSE LET source_name == Head(names)
             configured == source_name \in DOMAIN config_sources
             dropped ==
                \/ ~configured
                \/ /\ source_name \in DOMAIN existing_sources
                   /\ SourceMustBeRecreated(config_sources[source_name],
                                            existing_sources[source_name])
             existing == source_name \in DOMAIN existing_sources /\ ~dropped
             st1 == IF dropped THEN DeleteRequest(st, "sources", source_name) ELSE st
             st2 == IF ~configured THEN st1
                    ELSE LET defn == Request(st1, "/source_definitions/list", source_name)
                         IN IF dry_run THEN defn
                            ELSE WriteRequest(defn, "sources",
                                              IF existing THEN "update" ELSE "create",
                                              source_name, config_sources[source_name])
         IN SourcesLoopUnguardedDelete(config_sources, existing_sources, dry_run, Tail(names), st2)

\* lines 85-134: the loop of reconcile_sources
RECURSIVE SourcesLoop(_, _, _, _, _)
SourcesLoop(config_sources, existing_sources, dry_run, names, st) ==
    IF names = <<>> THEN st
    ELSE LET source_name == Head(names)
             configured == source_name \in DOMAIN config_sources
             dropped ==
                \/ ~configured
                \/ /\ source_name \in DOMAIN existing_sources
                   /\ SourceMustBeRecreated(config_sources[source_name],
                                            existing_sources[source_name])
             existing == source_name \in DOMAIN existing_sources /\ ~dropped
             st1 == IF dropped /\ ~dry_run THEN DeleteRequest(st, "sources", source_name) ELSE st
             st2 == IF ~configured THEN st1
                    ELSE LET defn == Request(st1, "/source_definitions/list", source_name)
                         IN IF dry_run THEN defn
                            ELSE WriteRequest(defn, "sources",
                                              IF existing THEN "update" ELSE "create",
                                              source_name, config_sources[source_name])
         IN SourcesLoop(config_sources, existing_sources, dry_run, Tail(names), st2)

\* lines 74-136
reconcile_sources(config_sources, existing_sources, dry_run, st) ==
    SourcesLoop(config_sources, existing_sources, dry_run,
                SetToSeq(DOMAIN config_sources \cup DOMAIN existing_sources), st)

\* lines 150-198: the loop of reconcile_destinations
RECURSIVE DestinationsLoop(_, _, _, _, _)
DestinationsLoop(config_destinations, existing_destinations, dry_run, names, st) ==
    IF names = <<>> THEN st
    ELSE LET destination_name == Head(names)
             st1 ==
                IF destination_name \notin DOMAIN config_destinations
                THEN IF dry_run THEN st ELSE DeleteRequest(st, "destinations", destination_name)
                ELSE LET defn == Request(st, "/destination_definitions/list", destination_name)
                     IN IF dry_run THEN defn
                        ELSE WriteRequest(defn, "destinations",
                                IF destination_name \in DOMAIN existing_destinations
                                THEN "update" ELSE "create",
                                destination_name, config_destinations[destination_name])
         IN DestinationsLoop(config_destinations, existing_destinations, dry_run, Tail(names), st1)

\* lines 139-200
reconcile_destinations(config_destinations, existing_destinations, dry_run, st) ==
    DestinationsLoop(config_destinations, existing_destinations, dry_run,
                     SetToSeq(DOMAIN config_destinations \cup DOMAIN existing_destinations), st)

\* lines 257-296 as called at lines 362-368: existing_connections.get("name", {})
\* finds no connection id, so no operation is listed; an operation is created
\* unless normalize_data is False
reconcile_normalization(normalization_config, destination, st) ==
    IF normalization_config /\ DestSupportsNormalization(destination)
    THEN Request(st, "/operations/create", "Normalization")
    ELSE st

\* lines 354-418: the loop of reconcile_connections_post.  Without dry_run the
\* update of an existing connection looks the source up under the connection's
\* name (line 398), which raises KeyError when no source has that name.
RECURSIVE ConnectionsPostLoop(_, _, _, _, _, _)
ConnectionsPostLoop(config_connections, existing_connections, init_sources, dry_run, names, st) ==
    IF names = <<>> \/ st.raised THEN st
    ELSE LET conn_name == Head(names)
             config_conn == config_connections[conn_name]
             st1 == IF dry_run THEN st
                    ELSE Request(reconcile_normalization(config_conn.normalize_data,
                                                         config_conn.destination, st),
                                 "/sources/discover_schema", config_conn.source)
             st2 == IF dry_run THEN st1
                    ELSE IF conn_name \in DOMAIN existing_connections
                    THEN IF conn_name \in init_sources
                         THEN WriteRequest(st1, "connections", "update", conn_name, config_conn)
                         ELSE [st1 EXCEPT !.raised = TRUE]
                    ELSE WriteRequest(st1, "connections", "create", conn_name, config_conn)
         IN ConnectionsPostLoop(config_connections, existing_connections, init_sources,
                                dry_run, Tail(names), st2)

\* lines 338-418
reconcile_connections_post(config_connections, init_sources, dry_run, st) ==
    LET listed == Request(st, "/connections/list", "")
    IN ConnectionsPostLoop(config_connections, listed.workspace.connections, init_sources,
                           dry_run, SetToSeq(DOMAIN config_connections), listed)

\* lines 205-254.  The result: the requests issued, the workspace they leave,
\* and the returned diff (nothing is returned when an exception leaves the call).
reconcile_config(objects, workspace, dry_run) ==
    LET st0 == [requests |-> <<>>, workspace |-> workspace, raised |-> FALSE]
        workspace_id == Request(st0, "/workspaces/list", "")
        sources_listed == Request(workspace_id, "/sources/list", "")
        existing_sources == sources_listed.workspace.sources
        dests_listed == Request(sources_listed, "/destinations/list", "")
        existing_dests == dests_listed.workspace.destinations
        pre == reconcile_connections_pre(objects.connections, dry_run, dests_listed)
        connections_diff ==
            DiffEntries("connections", objects.connections, dests_listed.workspace.connections)
        srcs == reconcile_sources(objects.sources, existing_sources, dry_run, pre)
        sources_diff == DiffEntries("sources", objects.sources, existing_sources)
        dsts == reconcile_destinations(objects.destinations, existing_dests, dry_run, srcs)
        dests_diff == DiffEntries("destinations", objects.destinations, existing_dests)
        post == reconcile_connections_post(objects.connections,
                    DOMAIN objects.sources \cup DOMAIN existing_sources, dry_run, dsts)
    IN [requests |-> post.requests,
        workspace |-> post.workspace,
        returned |-> ~post.raised,
        diff |-> IF post.raised THEN {}
                 ELSE sources_diff \cup dests_diff \cup connections_diff]

\* a repository with a managed stack: nothing configured, an empty workspace
AirbyteInit ==
    /\ deps = DocGraph
    /\ selection = {"d", "e", "f"}
    /\ and_condition = TRUE
    /\ wait_for_in_progress_runs = TRUE
    /\ airbyte = [objects |-> [connections |-> EmptyDict, sources |-> EmptyDict,
                               destinations |-> EmptyDict],
                  workspace |-> EmptyWorkspace,
                  pc |-> "idle",
                  dry_run |-> FALSE,
                  existing |-> EmptyWorkspace,
                  requests |-> <<>>,
                  returned |-> FALSE,
                  diff |-> {}]
    /\ log = <<>>
    /\ runs = <<>>
    /\ now = 0
    /\ cursor = <<>>
    /\ LocalsCleared

\* the user edits the configured connections
ConfigEdited ==
    /\ \E objects \in Objects :
          airbyte' = [airbyte EXCEPT !.objects = objects, !.pc = "idle", !.dry_run = FALSE,
                                     !.existing = airbyte.workspace, !.requests = <<>>,
                                     !.returned = FALSE, !.diff = {}]
    /\ UNCHANGED <<deps, selection, and_condition, wait_for_in_progress_runs,
                   instance, cursor, locals>>

\* one call of reconcile_config
ReconcileConfig(dry_run) ==
    /\ \E r \in {reconcile_config(airbyte.objects, airbyte.workspace, dry_run)} :
          airbyte' = [airbyte EXCEPT !.workspace = r.workspace, !.pc = "reconciled",
                                     !.dry_run = dry_run, !.existing = airbyte.workspace,
                                     !.requests = r.requests, !.returned = r.returned,
                                     !.diff = r.diff]
    /\ UNCHANGED <<deps, selection, and_condition, wait_for_in_progress_runs,
                   instance, cursor, locals>>

\* the "check" command
ReconcileChecked == ReconcileConfig(TRUE)

\* the "apply" command
ReconcileApplied == ReconcileConfig(FALSE)

AirbyteNext == ConfigEdited \/ ReconcileChecked \/ ReconcileApplied

AirbyteSpec == AirbyteInit /\ [][AirbyteNext]_vars

(***************************************************************************)
(* Vocabulary of the properties.  In a state with phase = "ticked" the     *)
(* event log and the run store are the ones the tick has read.             *)
(***************************************************************************)
Ticked == phase = "ticked"

LaunchSet == Range(should_materialize)

\* the cursor value of an asset in a serialized cursor, a missing key counted as 0
CursorValue(text, c) == DictGet(IF text # <<>> THEN JsonLoads(text) ELSE EmptyDict, c, 0)

\* the cursor value the tick has read for an asset
PrevCursor(c) == DictGet(cursor_dict, c, 0)

\* the runs that are in progress and have planned a materialization of p
InProgressRunsPlanning(p) ==
    {r \in DOMAIN runs : runs[r] \in IN_PROGRESS_RUN_STATUSES /\ p \in PlannedIn(r)}

\* the latest completed materialization of p is newer than what the tick read
\* as c's cursor, and its run also planned c
CoMaterialized(c, p) ==
    LET e == GetEventRecords(Context, "ASSET_MATERIALIZATION", p)
    IN /\ e # <<>>
       /\ e[1].timestamp > PrevCursor(c)
       /\ c \in PlannedIn(e[1].run_id)

LatestCompletion(p) ==
    LET e == GetEventRecords(Context, "ASSET_MATERIALIZATION", p)
    IN IF e = <<>> THEN 0 ELSE e[1].timestamp

\* what the sensor would return if it were invoked once more in this state
Reinvocations ==
    {sensor_fn(Context, deps, selection, and_condition, wait_for_in_progress_runs,
               cursor, order, porder) :
        order \in ToposortAssets(Upstream), porder \in ParentOrders(Upstream)}

(***************************************************************************)
(* C1  No spurious relaunch: when a tick has emitted a run request and     *)
(* written its cursor, invoking the sensor again on the same event log and *)
(* run store yields an empty launch set and no run request.                *)
(***************************************************************************)
C1_NoSpuriousRelaunch ==
    (Ticked /\ run_request # <<>>) =>
        \A r \in Reinvocations : r.should_materialize = <<>> /\ r.run_request = <<>>

(***************************************************************************)
(* C2  In-flight deferral: with wait_for_in_progress_runs, a monitored     *)
(* asset one of whose parents has a planned materialization in a run that  *)
(* is in progress is not in the tick's launch set.                         *)
(***************************************************************************)
C2_InFlightDeferral ==
    (Ticked /\ wait_for_in_progress_runs) =>
        \A c \in selection : \A p \in Upstream[c] :
            InProgressRunsPlanning(p) # {} => c \notin LaunchSet

C4_CoMaterializationAdvancesCursor ==
    Ticked =>
        \A c \in selection : \A p \in Upstream[c] :
            (CoMaterialized(c, p) /\ parent_update_records[c][p].ts = LatestCompletion(p)) =>
                /\ cursor_update_dict[c] >= LatestCompletion(p)
                /\ run_request # <<>> => CursorValue(cursor, c) >= LatestCompletion(p)

(***************************************************************************)
(* C5  Cursor conservation on skip: a tick whose launch set is empty emits *)
(* no run request and leaves the persisted cursor as it was.               *)
(***************************************************************************)
C5_CursorConservationOnSkip ==
    [][(phase' = "ticked" /\ should_materialize' = <<>>) =>
            (run_request' = <<>> /\ cursor' = cursor)]_vars

\* a tick that launched nothing although a parent had a completion newer than
\* the child's cursor
C5_Witness ==
    /\ Ticked /\ should_materialize = <<>> /\ run_request = <<>>
    /\ \E c \in selection : \E p \in Upstream[c] : parent_update_records[c][p].ts > 0

(***************************************************************************)
(* C6  Cursor monotonicity: no step lowers the persisted cursor value of a *)
(* monitored asset (a missing key counted as 0).                           *)
(***************************************************************************)
C6_CursorMonotonicity ==
    [][\A c \in selection : CursorValue(cursor', c) >= CursorValue(cursor, c)]_vars

\* a launching tick that raised one cursor value and launched another asset
\* whose cursor was already positive only on parents launched with it
C6_Witness ==
    /\ Ticked /\ run_request # <<>>
    /\ \E c \in selection : CursorValue(cursor, c) > PrevCursor(c)
    /\ \E c \in LaunchSet :
          /\ PrevCursor(c) > 0
          /\ Upstream[c] # {}
          /\ \A p \in Upstream[c] : parent_update_records[c][p] = Status(TRUE, 0)

(***************************************************************************)
(* C7  Topological soundness: in an emitted launch set a parent comes      *)
(* before each of its children.                                            *)
(***************************************************************************)
C7_TopologicalSoundness ==
    (Ticked /\ run_request # <<>>) =>
        \A i, j \in DOMAIN run_request[1].asset_selection :
            run_request[1].asset_selection[i] \in Upstream[run_request[1].asset_selection[j]]
                => i < j

\* an emitted launch set that holds a parent and its child
C7_Witness ==
    /\ Ticked /\ run_request # <<>>
    /\ \E i, j \in DOMAIN run_request[1].asset_selection :
          run_request[1].asset_selection[i] \in Upstream[run_request[1].asset_selection[j]]

(***************************************************************************)
(* C8  Launch rule: a monitored asset is in the launch set iff, in         *)
(* all-mode, every parent's status is updated, or, in any-mode, at least   *)
(* one parent's status is updated.                                         *)
(***************************************************************************)
C8_LaunchRule ==
    Ticked =>
        \A c \in selection :
            c \in LaunchSet <=>
                \/ and_condition /\ \A p \in Upstream[c] : parent_update_records[c][p].updated
                \/ ~and_condition /\ \E p \in Upstream[c] : parent_update_records[c][p].updated

\* a tick that separates the two modes on an asset with an updated and a
\* not updated parent: launched in any-mode
C8_Witness ==
    /\ Ticked /\ ~and_condition
    /\ \E c \in LaunchSet : \E p, q \in Upstream[c] :
          parent_update_records[c][p].updated /\ ~parent_update_records[c][q].updated

Dict3(d, e, f) == [k \in {"d", "e", "f"} |-> CASE k = "d" -> d [] k = "e" -> e [] OTHER -> f]

SingleNewUpstream ==
    /\ Ticked
    /\ deps = DocGraph /\ selection = {"d", "e", "f"}
    /\ wait_for_in_progress_runs
    /\ cursor_dict = Dict3(2, 3, 0)
    /\ LatestCompletion("a") = 4 /\ LatestCompletion("b") = 2 /\ LatestCompletion("c") = 3
    /\ \A k \in {"d", "e", "f"} : LatestCompletion(k) = 0
    /\ PlannedIn(GetEventRecords(Context, "ASSET_MATERIALIZATION", "a")[1].run_id) = {"a"}
    /\ \A r \in DOMAIN runs : runs[r] \notin IN_PROGRESS_RUN_STATUSES

\* C10 as claimed: in all-mode the tick emits the launch set [d, f] and the cursor
\* becomes {d: 4, e: 3, f: 0}.
C10_SingleNewUpstream_AsClaimed ==
    (SingleNewUpstream /\ and_condition) =>
        /\ run_request # <<>>
        /\ should_materialize = <<"d", "f">>
        /\ JsonLoads(cursor) = Dict3(4, 3, 0)

\* C10, amended: in all-mode the tick launches nothing, emits no run request and
\* leaves the cursor {d: 2, e: 3, f: 0} (b is not newer than d's cursor); it is
\* in any-mode that the tick emits [d, f] and the cursor becomes
\* {d: 4, e: 3, f: 0}.
C10_SingleNewUpstream ==
    SingleNewUpstream =>
        IF and_condition
        THEN /\ should_materialize = <<>>
             /\ run_request = <<>>
             /\ JsonLoads(cursor) = Dict3(2, 3, 0)
        ELSE /\ run_request # <<>>
             /\ run_request[1].asset_selection = <<"d", "f">>
             /\ run_request[1].run_key = cursor
             /\ JsonLoads(cursor) = Dict3(4, 3, 0)

\* the scenario's tick in all-mode, d having seen a@4 as new and b as old
C10_Witness ==
    /\ SingleNewUpstream /\ and_condition
    /\ parent_update_records["d"]["a"] = Status(TRUE, 4)
    /\ parent_update_records["d"]["b"] = Status(FALSE, 0)

\* the scenario's tick in any-mode
C10_WitnessAnyMode == SingleNewUpstream /\ ~and_condition /\ run_request # <<>>

(***************************************************************************)
(* C11  Scenario "in-flight parent" on the docstring's graph with          *)
(* wait_for_in_progress_runs, the tick having read the cursor              *)
(* {d: 2, e: 3, f: 0} and a, b at 1, 2, nothing recorded for d, e, f.      *)
(* First state: c is still at 3 and a run that planned only c is in        *)
(* progress.  Second state: that run has finished with c@5.                *)
(***************************************************************************)
ScenarioBase ==
    /\ Ticked
    /\ deps = DocGraph /\ selection = {"d", "e", "f"}
    /\ wait_for_in_progress_runs
    /\ cursor_dict = Dict3(2, 3, 0)
    /\ LatestCompletion("a") = 1 /\ LatestCompletion("b") = 2
    /\ \A k \in {"d", "e", "f"} : LatestCompletion(k) = 0

InFlightParent ==
    /\ ScenarioBase
    /\ LatestCompletion("c") = 3
    /\ \E r \in DOMAIN runs : runs[r] \in IN_PROGRESS_RUN_STATUSES /\ PlannedIn(r) = {"c"}

InFlightParentCompleted ==
    /\ ScenarioBase
    /\ LatestCompletion("c") = 5
    /\ PlannedIn(GetEventRecords(Context, "ASSET_MATERIALIZATION", "c")[1].run_id) = {"c"}
    /\ \A r \in DOMAIN runs : runs[r] \notin IN_PROGRESS_RUN_STATUSES

\* C11 as claimed: while the run is in progress the tick launches nothing and
\* leaves the cursor; once it has completed with c@5 the tick in all-mode
\* yields the launch set [e, f].
C11_InFlightParent_AsClaimed ==
    /\ (InFlightParent /\ and_condition) =>
            should_materialize = <<>> /\ JsonLoads(cursor) = Dict3(2, 3, 0)
    /\ (InFlightParentCompleted /\ and_condition) =>
            run_request # <<>> /\ should_materialize = <<"e", "f">>

\* C11, amended: while the run is in progress the tick launches nothing and
\* leaves the cursor, in both modes; once it has completed with c@5 the tick
\* in all-mode still launches nothing and leaves the cursor (b is not newer
\* than e's cursor), and it is in any-mode that the tick yields [e, f], with
\* the cursor {d: 2, e: 5, f: 0}.
C11_InFlightParent ==
    /\ InFlightParent =>
            /\ should_materialize = <<>> /\ run_request = <<>>
            /\ JsonLoads(cursor) = Dict3(2, 3, 0)
    /\ InFlightParentCompleted =>
            IF and_condition
            THEN /\ should_materialize = <<>> /\ run_request = <<>>
                 /\ JsonLoads(cursor) = Dict3(2, 3, 0)
            ELSE /\ run_request # <<>>
                 /\ run_request[1].asset_selection = <<"e", "f">>
                 /\ JsonLoads(cursor) = Dict3(2, 5, 0)

\* the tick after the run has completed with c@5, in all-mode, e having seen
\* c as new and b as old
C11_Witness ==
    /\ InFlightParentCompleted /\ and_condition
    /\ parent_update_records["e"]["c"] = Status(TRUE, 5)
    /\ parent_update_records["e"]["b"] = Status(FALSE, 0)

\* the tick while the run is in progress: e's parents are all reported not updated
C11_WitnessInFlight ==
    /\ InFlightParent
    /\ \A p \in {"b", "c"} : parent_update_records["e"][p] = Status(FALSE, 0)

\* the tick after the run has completed, in any-mode
C11_WitnessAnyMode == InFlightParentCompleted /\ ~and_condition /\ run_request # <<>>

(***************************************************************************)
(* C12  Scenario "any-mode contrast" on the docstring's graph in any-mode  *)
(* with wait_for_in_progress_runs: the tick has read the cursor            *)
(* {d: 2, e: 3, f: 0}; a, c are at 1, 3; one finished run planned b and d  *)
(* and produced both, b at 6; nothing is recorded for e, f.  The tick      *)
(* emits the launch set [e, f] and writes a cursor with d: 6, e: 6, f: 0.  *)
(***************************************************************************)
AnyModeContrast ==
    /\ Ticked
    /\ deps = DocGraph /\ selection = {"d", "e", "f"}
    /\ wait_for_in_progress_runs /\ ~and_condition
    /\ cursor_dict = Dict3(2, 3, 0)
    /\ LatestCompletion("a") = 1 /\ LatestCompletion("b") = 6 /\ LatestCompletion("c") = 3
    /\ LatestCompletion("d") > 0
    /\ LatestCompletion("e") = 0 /\ LatestCompletion("f") = 0
    /\ LET r == GetEventRecords(Context, "ASSET_MATERIALIZATION", "b")[1].run_id
       IN /\ PlannedIn(r) = {"b", "d"}
          /\ GetEventRecords(Context, "ASSET_MATERIALIZATION", "d")[1].run_id = r
    /\ \A r \in DOMAIN runs : runs[r] \notin IN_PROGRESS_RUN_STATUSES

C12_AnyModeContrast ==
    AnyModeContrast =>
        /\ run_request # <<>>
        /\ run_request[1].asset_selection = <<"e", "f">>
        /\ CursorValue(cursor, "d") = 6
        /\ CursorValue(cursor, "e") = 6
        /\ CursorValue(cursor, "f") = 0

\* what the code does in that state (not the claim): [e, f] is launched, d's
\* cursor stays 2 and f's cursor takes d's completion
C12_CodeBehaviour ==
    AnyModeContrast =>
        /\ run_request # <<>>
        /\ run_request[1].asset_selection = <<"e", "f">>
        /\ CursorValue(cursor, "d") = 2
        /\ CursorValue(cursor, "e") = 6
        /\ CursorValue(cursor, "f") = LatestCompletion("d")

(***************************************************************************)
(* C13  Run-key uniqueness: two ticks of one sensor that each emit a run   *)
(* request emit different run_keys.  Stated for a launching tick and the   *)
(* tick invoked next on the same event log and run store: if that one      *)
(* launches too, its run_key differs from the first one's.                 *)
(***************************************************************************)
C13_RunKeyUniqueness ==
    (Ticked /\ run_request # <<>>) =>
        \A r \in Reinvocations :
            r.run_request # <<>> => r.run_request[1].run_key # run_request[1].run_key

\* what the code does (not the claim): a run_key is repeated only in all-mode
\* with a monitored asset that has no parents
C13_RepeatedKeyNeedsParentless ==
    (Ticked /\ run_request # <<>>) =>
        \A r \in Reinvocations :
            (r.run_request # <<>> /\ r.run_request[1].run_key = run_request[1].run_key) =>
                and_condition /\ \E c \in selection : Upstream[c] = {}

(***************************************************************************)
(* C14  Run-request emission: a tick emits at most one run request; it     *)
(* emits one exactly when the launch set is non-empty; the request's asset *)
(* selection is the launch set and its run_key is the cursor text written  *)
(* by this tick (the serialized cursor_update_dict), the cursor being      *)
(* written before the request is built.                                    *)
(***************************************************************************)
C14_RunRequestEmission ==
    Ticked =>
        /\ Len(run_request) <= 1
        /\ run_request # <<>> <=> should_materialize # <<>>
        /\ run_request # <<>> =>
              /\ run_request[1].asset_selection = should_materialize
              /\ cursor = JsonDumps(cursor_update_dict, toposort_assets)
              /\ run_request[1].run_key = cursor

\* a tick that emitted a request whose cursor is not the one it started from
C14_Witness ==
    /\ Ticked /\ run_request # <<>>
    /\ JsonLoads(cursor) # cursor_dict
    /\ cursor_dict # EmptyDict

(***************************************************************************)
(* C15  Corrupt cursor degrades gracefully: a tick that finds a non-empty  *)
(* cursor text that cannot be decoded treats it as the empty cursor and    *)
(* evaluates, instead of failing.                                          *)
(***************************************************************************)
C15_CorruptCursorDegrades ==
    [][(cursor # <<>> /\ ~WellFormed(cursor) /\ phase' \in {"ticked", "failed"}) =>
            phase' = "ticked" /\ cursor_dict' = EmptyDict]_vars

\* what the code does (not the claim): once the text is damaged, every tick
\* raises and the cursor stays damaged
C15_CodeBehaviour ==
    [][(cursor # <<>> /\ ~WellFormed(cursor)) =>
            /\ cursor' = cursor
            /\ phase' \in {"idle", "failed"}
            /\ run_request' = <<>>]_vars

(***************************************************************************)
(* C16  Aborted tick leaves the cursor untouched: when a query of the      *)
(* instance fails, or the tick is aborted, at any query point of the tick, *)
(* the persisted cursor is unchanged and no run request is emitted.        *)
(***************************************************************************)
C16_AbortedTickKeepsCursor ==
    [][phase' = "failed" => cursor' = cursor /\ run_request' = <<>>]_vars

\* an aborted tick that had already put an asset in the launch set
C16_Witness ==
    /\ phase = "failed"
    /\ should_materialize # <<>>
    /\ cursor = <<>>

(***************************************************************************)
(* C17  Source-asset limitation: a monitored child with a parent that is   *)
(* not monitored and has no completed materialization is, in all-mode, not *)
(* in the launch set of the tick, whatever the state of its other parents; *)
(* in any-mode it is launched when another parent is updated.              *)
(***************************************************************************)
SourceParents(c) == {p \in Upstream[c] : p \notin selection /\ LatestCompletion(p) = 0}

C17_SourceAssetLimitation ==
    Ticked =>
        \A c \in selection :
            SourceParents(c) # {} =>
                /\ and_condition => c \notin LaunchSet
                /\ (~and_condition /\ \E q \in Upstream[c] : parent_update_records[c][q].updated)
                        => c \in LaunchSet

\* all-mode: the child's other parent has a new completion of a finished run
\* that did not plan the child, and the child is held back by the source parent
C17_Witness ==
    /\ Ticked /\ and_condition
    /\ \E c \in selection : \E q \in Upstream[c] :
          /\ SourceParents(c) # {}
          /\ parent_update_records[c][q] = Status(TRUE, LatestCompletion(q))
          /\ LatestCompletion(q) > PrevCursor(c)
          /\ \A p \in Upstream[c] : InProgressRunsPlanning(p) = {}

\* any-mode: the same child is launched on the other parent's update
C17_WitnessAnyMode ==
    /\ Ticked /\ ~and_condition
    /\ \E c \in selection : \E q \in Upstream[c] :
          /\ SourceParents(c) # {}
          /\ parent_update_records[c][q].updated
          /\ c \in LaunchSet

(***************************************************************************)
(* C18  Deterministic linearization: the order in which a tick processes   *)
(* the monitored assets is dependency layer by layer and, within a layer,  *)
(* by ascending key string; and all invocations of the tick on one cursor, *)
(* event log and graph return the same cursor and the same run request,    *)
(* the order of its asset list included.                                   *)
(***************************************************************************)
KeyStrings == <<"a", "b", "c", "d", "e", "f", "x", "y", "z">>

KeyRank(k) == CHOOSE i \in DOMAIN KeyStrings : KeyStrings[i] = k

CanonicalOrder(order) ==
    LET layers == ToposortLayers(ToposortData(Upstream))
    IN \A i \in DOMAIN order : \A j \in DOMAIN order :
          i < j =>
              \/ LayerOf(layers, order[i]) < LayerOf(layers, order[j])
              \/ /\ LayerOf(layers, order[i]) = LayerOf(layers, order[j])
                 /\ KeyRank(order[i]) < KeyRank(order[j])

C18_DeterministicLinearization ==
    Ticked =>
        /\ CanonicalOrder(toposort_assets)
        /\ Cardinality({<<r.cursor, r.run_request>> : r \in Reinvocations}) = 1

\* what the code does (not the claim): the decisions do not depend on the
\* order; what varies is the order of the launch list and of the cursor's items
C18_CodeBehaviour ==
    \A r1 \in Reinvocations : \A r2 \in Reinvocations :
        /\ Range(r1.should_materialize) = Range(r2.should_materialize)
        /\ r1.cursor_update_dict = r2.cursor_update_dict

(***************************************************************************)
(* C19  Upstream map shape: the keys of the upstream map are exactly the   *)
(* assets of the selection; each key maps to its direct parents in the     *)
(* full graph, those outside the selection included; no key is in its own  *)
(* parent set.  The statuses of a tick are kept per key and parent of that *)
(* map.                                                                    *)
(***************************************************************************)
C19_UpstreamMapShape ==
    /\ DOMAIN Upstream = selection
    /\ \A k \in selection : Upstream[k] = deps[k] /\ k \notin Upstream[k]
    /\ Ticked =>
          /\ DOMAIN parent_update_records = selection
          /\ \A k \in selection : DOMAIN parent_update_records[k] = deps[k]

\* a tick on a graph where a monitored asset has a parent outside the
\* selection and a grandparent that is not its parent
C19_Witness ==
    /\ Ticked
    /\ \E k \in selection : \E p \in Upstream[k] :
          /\ p \notin selection
          /\ p \in DOMAIN parent_update_records[k]
    /\ \E k \in selection : \E p \in Upstream[k] : \E g \in deps[p] : g \notin Upstream[k]

(***************************************************************************)
(* C20  The decision engine matches the two-phase rule.  Step A: with the  *)
(* flag set, if some parent not in L has its latest planned                *)
(* materialization in a run in progress, every parent maps to (false, 0).  *)
(* Step B otherwise: a parent in L maps to (true, 0); a parent with no     *)
(* completion, or latest completion <= t_c, to (false, 0); a parent with   *)
(* latest completion T > t_c to (false, T) if that run planned c and to    *)
(* (true, T) if not.  For every child of a tick, with L the assets         *)
(* launched before it, _get_parent_updates returned that map.              *)
(***************************************************************************)
StepA(P, L) ==
    /\ wait_for_in_progress_runs
    /\ \E p \in P \ L : ParentInProgress(Context, p)

StepB(c, p, t_c, L) ==
    IF p \in L THEN Status(TRUE, 0)
    ELSE IF LatestCompletion(p) = 0 \/ LatestCompletion(p) <= t_c THEN Status(FALSE, 0)
    ELSE IF CoMaterialized(c, p) THEN Status(FALSE, LatestCompletion(p))
    ELSE Status(TRUE, LatestCompletion(p))

TwoPhaseReference(c, P, t_c, L) ==
    IF StepA(P, L) THEN [q \in P |-> Status(FALSE, 0)]
    ELSE [p \in P |-> StepB(c, p, t_c, L)]

Position(c) == CHOOSE i \in DOMAIN toposort_assets : toposort_assets[i] = c

LaunchedBefore(c) == {a \in LaunchSet : Position(a) < Position(c)}

C20_TwoPhaseRule ==
    Ticked =>
        \A c \in selection :
            parent_update_records[c] =
                TwoPhaseReference(c, Upstream[c], PrevCursor(c), LaunchedBefore(c))

\* step A overriding step B: a parent in flight, and another parent whose
\* completion is newer than the child's cursor, reported (false, 0)
C20_Witness ==
    /\ Ticked /\ wait_for_in_progress_runs
    /\ \E c \in selection : \E p \in Upstream[c] : \E q \in Upstream[c] :
          /\ p # q
          /\ p \notin LaunchSet /\ ParentInProgress(Context, p)
          /\ LatestCompletion(q) > PrevCursor(c) /\ ~CoMaterialized(c, q)
          /\ parent_update_records[c][q] = Status(FALSE, 0)

\* step B with a parent in L next to a parent evaluated from the log
C20_WitnessStepB ==
    /\ Ticked
    /\ \E c \in selection : \E p \in Upstream[c] : \E q \in Upstream[c] :
          /\ p \in LaunchSet
          /\ parent_update_records[c][p] = Status(TRUE, 0)
          /\ parent_update_records[c][q].ts > 0

(***************************************************************************)
(* C21  Ride-along in one consolidated run.  When a monitored child c is   *)
(* evaluated, every parent of c launched in this tick is already in L and  *)
(* has status (true, 0); c is launched in the same tick whenever its       *)
(* parent set is non-empty and wholly in L, and in any-mode whenever a     *)
(* parent is in L and no parent outside L is in flight; parents in L do    *)
(* not raise c's next cursor.                                              *)
(***************************************************************************)
ParentsInL(c) == Upstream[c] \cap LaunchSet

InFlightOutsideL(c) ==
    /\ wait_for_in_progress_runs
    /\ \E q \in Upstream[c] \ LaunchSet : ParentInProgress(Context, q)

RideAlongLaunch(c) ==
    /\ (Upstream[c] # {} /\ Upstream[c] \subseteq LaunchSet) =>
            c \in LaunchSet /\ CursorValue(cursor, c) = PrevCursor(c)
    /\ (~and_condition /\ ParentsInL(c) # {} /\ ~InFlightOutsideL(c)) => c \in LaunchSet
    /\ c \in LaunchSet =>
            CursorValue(cursor, c) =
                Max({PrevCursor(c)} \cup
                    {parent_update_records[c][q].ts : q \in Upstream[c] \ LaunchSet})

\* C21 as claimed: a parent in L always has the status (true, 0)
C21_RideAlong_AsClaimed ==
    Ticked =>
        \A c \in selection :
            /\ \A p \in ParentsInL(c) :
                  /\ Position(p) < Position(c)
                  /\ parent_update_records[c][p] = Status(TRUE, 0)
            /\ RideAlongLaunch(c)

\* C21, amended: a parent in L has the status (true, 0) unless, with
\* wait_for_in_progress_runs, a parent of c outside L is in flight; then it has
\* (false, 0) like every other parent of c.  The rest is as claimed.
C21_RideAlong ==
    Ticked =>
        \A c \in selection :
            /\ \A p \in ParentsInL(c) :
                  /\ Position(p) < Position(c)
                  /\ parent_update_records[c][p] =
                        IF InFlightOutsideL(c) THEN Status(FALSE, 0) ELSE Status(TRUE, 0)
            /\ RideAlongLaunch(c)

\* a child launched along with its only parents, its cursor left at t_c while
\* the parent's completion in the log is newer
C21_Witness ==
    /\ Ticked
    /\ \E c \in LaunchSet :
          /\ Upstream[c] # {} /\ Upstream[c] \subseteq LaunchSet
          /\ \E p \in Upstream[c] : LatestCompletion(p) > PrevCursor(c)

\* a parent in L reported (false, 0) because another parent is in flight
C21_WitnessInFlight ==
    /\ Ticked
    /\ \E c \in selection : \E p \in ParentsInL(c) :
          /\ InFlightOutsideL(c)
          /\ parent_update_records[c][p] = Status(FALSE, 0)

\* any-mode: a child launched on a parent in L while another parent is old
C21_WitnessAnyMode ==
    /\ Ticked /\ ~and_condition
    /\ \E c \in LaunchSet : \E q \in Upstream[c] \ LaunchSet :
          /\ ParentsInL(c) # {}
          /\ ~parent_update_records[c][q].updated

(***************************************************************************)
(* C22  With wait_for_in_progress_runs = false the in-flight check is      *)
(* disabled: a tick started from the same cursor, graph, mode and the same *)
(* planned and completed events, with any other assignment of statuses to  *)
(* the runs, produces the same launch set and the same next cursor as the  *)
(* tick that was made.                                                     *)
(***************************************************************************)
RunStatuses == {"STARTED", "FINISHED"}

\* the cursor text the tick read, up to the order of its items
CursorRead ==
    IF cursor_dict = EmptyDict THEN <<>>
    ELSE JsonDumps(cursor_dict, SetToSeq(DOMAIN cursor_dict))

TickWithRuns(other_runs, porder) ==
    sensor_fn([log |-> log, runs |-> other_runs], deps, selection, and_condition,
              wait_for_in_progress_runs, CursorRead, toposort_assets, porder)

C22_WaitOffIgnoresRuns ==
    (Ticked /\ ~wait_for_in_progress_runs) =>
        \A other_runs \in [DOMAIN runs -> RunStatuses] :
        \A porder \in ParentOrders(Upstream) :
            LET r == TickWithRuns(other_runs, porder)
            IN /\ r.should_materialize = should_materialize
               /\ r.cursor_update_dict = cursor_update_dict
               /\ r.run_request = run_request
               /\ r.run_request # <<>> => r.cursor = cursor

\* a tick without the flag that launched a child whose parent's latest planned
\* materialization is in a run in progress
C22_Witness ==
    /\ Ticked /\ ~wait_for_in_progress_runs
    /\ \E c \in LaunchSet : \E p \in Upstream[c] \ LaunchSet :
          /\ ParentInProgress(Context, p)
          /\ parent_update_records[c][p].updated

(***************************************************************************)
(* C23  Every launch is justified by a parent: every asset in the launch   *)
(* set of a tick has a parent whose status in that tick is updated, i.e.   *)
(* the parent is launched in the same tick or has a completion newer than  *)
(* the child's cursor from a run that did not plan the child; an asset     *)
(* with an empty parent set is never launched.                             *)
(***************************************************************************)
JustifiedBy(c, p) ==
    /\ parent_update_records[c][p].updated
    /\ \/ p \in LaunchedBefore(c)
       \/ LatestCompletion(p) > PrevCursor(c) /\ ~CoMaterialized(c, p)

C23_LaunchJustifiedByParent ==
    Ticked =>
        \A c \in LaunchSet :
            /\ Upstream[c] # {}
            /\ \E p \in Upstream[c] : JustifiedBy(c, p)

\* what the code does (not the claim): a launched asset that has parents has a
\* justifying parent; an asset without parents is launched by every tick in
\* all-mode and by none in any-mode
C23_CodeBehaviour ==
    Ticked =>
        \A c \in selection :
            IF Upstream[c] = {} THEN c \in LaunchSet <=> and_condition
            ELSE c \in LaunchSet => \E p \in Upstream[c] : JustifiedBy(c, p)

(***************************************************************************)
(* C24  Quiescence after the sensor's own run: a tick launches L, the run  *)
(* created from its request plans and completes a materialization of every *)
(* asset of L, nothing else is recorded; then every tick after the run's   *)
(* completion yields an empty launch set.                                  *)
(***************************************************************************)
C24_QuiescenceAfterOwnRun ==
    phase = "own_ticked" => should_materialize = <<>> /\ run_request = <<>>

\* what the code does (not the claim): after its own run the sensor launches
\* again only in all-mode and only assets without parents (and what rides
\* along with them)
C24_CodeBehaviour ==
    (phase = "own_ticked" /\ should_materialize # <<>>) =>
        /\ and_condition
        /\ \E c \in LaunchSet : Upstream[c] = {}
        /\ \A c \in LaunchSet : Upstream[c] \subseteq LaunchSet

(***************************************************************************)
(* C25  No race with a parent run under interleaving: with                 *)
(* wait_for_in_progress_runs, runs being created, recording and ending     *)
(* between the queries of a tick, the run request a tick emits holds no    *)
(* child c such that, when the request is emitted, a parent of c outside   *)
(* the launch set has its latest planned materialization in a run in       *)
(* progress.                                                               *)
(***************************************************************************)
C25_NoRaceWithParentRun ==
    (Ticked /\ wait_for_in_progress_runs /\ run_request # <<>>) =>
        \A c \in Range(run_request[1].asset_selection) :
            \A p \in Upstream[c] \ Range(run_request[1].asset_selection) :
                ~ParentInProgress(Context, p)

\* the race on x -> y -> z, x -> z (y, z monitored): y is evaluated and put in
\* the launch set, a run planning x starts, z sees x in flight and is held
\* back; the request for y is emitted while x is in flight
C25_RaceReached ==
    /\ Ticked /\ wait_for_in_progress_runs
    /\ deps = Edges({}, {"x"}, {"x", "y"})
    /\ should_materialize = <<"y">>
    /\ ParentInProgress(Context, "x")
    /\ parent_update_records["y"]["x"].updated
    /\ parent_update_records["z"]["x"] = Status(FALSE, 0)

(***************************************************************************)
(* C26  The launch set and the cursor do not depend on the order inside a  *)
(* topological layer: on the cursor, event log, graph and mode of a tick,  *)
(* processing the assets of each layer in any other permutation yields the *)
(* same set of launched assets and the same next cursor map; only the      *)
(* order of the launch list may differ.                                    *)
(***************************************************************************)
TickInOrder(order, porder) ==
    sensor_fn(Context, deps, selection, and_condition, wait_for_in_progress_runs,
              CursorRead, order, porder)

C26_LayerOrderIrrelevant ==
    Ticked =>
        \A order \in ToposortAssets(Upstream) :
        \A porder \in ParentOrders(Upstream) :
            LET r == TickInOrder(order, porder)
            IN /\ Range(r.should_materialize) = LaunchSet
               /\ r.cursor_update_dict = cursor_update_dict
               /\ r.parent_update_records = parent_update_records
               /\ r.run_request # <<>> => JsonLoads(r.cursor) = JsonLoads(cursor)

\* a tick that processed the layer {d, e} as e, d and launched both, with
\* different cursor values
C26_Witness ==
    /\ Ticked
    /\ toposort_assets = <<"e", "d", "f">>
    /\ {"d", "e"} \subseteq LaunchSet
    /\ cursor_update_dict["d"] # cursor_update_dict["e"]

(***************************************************************************)
(* C27  Cursor values come from observed parent events: starting from an   *)
(* empty cursor, the persisted cursor value of every monitored child c is  *)
(* 0 or the timestamp of a completed materialization of one of c's parents *)
(* in the event log; a cursor that has been written has exactly the        *)
(* monitored children as keys.                                             *)
(***************************************************************************)
CompletionTimestamps(p) ==
    {log[i].timestamp : i \in {j \in DOMAIN log :
        log[j].asset_key = p /\ log[j].event_type = "ASSET_MATERIALIZATION"}}

C27_CursorFromParentEvents ==
    /\ cursor # <<>> =>
          /\ {cursor[i][1] : i \in DOMAIN cursor} = selection
          /\ Len(cursor) = Cardinality(selection)
    /\ (Ticked /\ run_request # <<>>) => DOMAIN JsonLoads(cursor) = selection
    /\ \A c \in selection :
          \/ CursorValue(cursor, c) = 0
          \/ \E p \in Upstream[c] : CursorValue(cursor, c) \in CompletionTimestamps(p)

\* a launching tick that moved a cursor value from one parent completion to a later one
C27_Witness ==
    /\ Ticked /\ run_request # <<>>
    /\ \E c \in selection :
          /\ PrevCursor(c) > 0
          /\ CursorValue(cursor, c) > PrevCursor(c)

C28_WitnessSourceRecreated ==
    /\ airbyte.pc = "reconciled" /\ airbyte.dry_run
    /\ \E n \in DOMAIN airbyte.objects.sources \cap DOMAIN airbyte.existing.sources :
          SourceMustBeRecreated(airbyte.objects.sources[n], airbyte.existing.sources[n])

\* a dry run on a workspace whose connection would be recreated
C28_WitnessConnectionRecreated ==
    /\ airbyte.pc = "reconciled" /\ airbyte.dry_run
    /\ \E n \in DOMAIN airbyte.objects.connections \cap DOMAIN airbyte.existing.connections :
          ConnectionMustBeRecreated(airbyte.objects.connections[n],
                                    airbyte.existing.connections[n])

\* without dry_run the update of a connection that has no source of its own
\* name leaves the call by an exception
C28_WitnessApplyRaised == airbyte.pc = "reconciled" /\ ~airbyte.dry_run /\ ~airbyte.returned

\* the same call without dry_run issues deletes, creates and updates
C28_WitnessApplied ==
    /\ airbyte.pc = "reconciled" /\ ~airbyte.dry_run
    /\ \E i \in DOMAIN airbyte.requests : airbyte.requests[i].endpoint = "/sources/delete"
    /\ \E i \in DOMAIN airbyte.requests : airbyte.requests[i].endpoint = "/connections/create"
    /\ \E i \in DOMAIN airbyte.requests : airbyte.requests[i].endpoint = "/operations/create"

====
